---- MODULE Spec2Model ----
(***************************************************************************)
(* Model of root/app/functions/pylav_setup.py: the PyLav cog setup script  *)
(* that runs once per container start.  One behaviour of the model is a     *)
(* sequence of runs of the script over the same /data volume.               *)
(*                                                                         *)
(* Text is modelled as a sequence of one-character strings, so that         *)
(* str.startswith, the "in" substring test, str.upper and str.strip are     *)
(* computed as Python computes them.                                        *)
(***************************************************************************)
EXTENDS Integers, Sequences, FiniteSets, TLC

\* ------------------------------------------------------------------ bounds
\* How many times the script is run over the same volume.
MaxRuns == 2
\* How many lines the installer prints before its stream ends.
MaxLines == 2

\* ------------------------------------------------------------ text helpers
\* Python's None.
None == <<"<None>">>

\* str.startswith(prefix)
StartsWith(s, prefix) ==
    /\ Len(s) >= Len(prefix)
    /\ SubSeq(s, 1, Len(prefix)) = prefix

\* "sub in s"
Contains(s, sub) ==
    \E i \in 1..(Len(s) - Len(sub) + 1) : SubSeq(s, i, i + Len(sub) - 1) = sub

UpperChar(ch) ==
    CASE ch = "j" -> "J"
      [] ch = "s" -> "S"
      [] ch = "o" -> "O"
      [] ch = "n" -> "N"
      [] ch = "p" -> "P"
      [] ch = "g" -> "G"
      [] OTHER -> ch

\* str.upper()
Upper(s) == [i \in 1..Len(s) |-> UpperChar(s[i])]

IsSpace(ch) == ch \in {" ", "\n", "\t"}

RECURSIVE LStrip(_)
LStrip(s) == IF s # <<>> /\ IsSpace(Head(s)) THEN LStrip(Tail(s)) ELSE s

RECURSIVE RStrip(_)
RStrip(s) ==
    IF s # <<>> /\ IsSpace(s[Len(s)]) THEN RStrip(SubSeq(s, 1, Len(s) - 1)) ELSE s

\* str.strip()
Strip(s) == LStrip(RStrip(s))

\* ------------------------------------------------------- program constants
TagSubstring == <<"p", "y", "l", "a", "v">>
JsonUpper == <<"J", "S", "O", "N">>
CogPrefix == <<"p", "l">>
AudioName == <<"a", "u", "d", "i", "o">>
SuccessSentinel ==
    <<"S", "u", "c", "c", "e", "s", "s", "f", "u", "l", "l", "y", " ",
      "i", "n", "s", "t", "a", "l", "l", "e", "d">>
RepoName == "pylav"
RepoBranch == "master"

\* The three folders the script creates; the checkout folder depends on the
\* storage mode.
DownloaderLibFolder == "/data/cogs/Downloader/lib"
CogManagerCogFolder == "/data/cogs/CogManager/cogs"
RepoManagerRepoFolder(json) ==
    IF json THEN "/data/cogs/RepoManager/repos/pylav" ELSE "/data/pylav/cogs"

\* --------------------------------------------------- the run's environment
\* Values of PCX_DISCORDBOT_TAG.
TagValues ==
    { None,
      <<"l", "a", "t", "e", "s", "t">>,
      <<"e", "x", "-", "p", "y", "l", "a", "v", "-", "3">> }

\* Values of the STORAGE_TYPE environment variable.
StorageEnvValues ==
    { None, <<"j", "s", "o", "n">>, <<"p", "o", "s", "t", "g", "r", "e", "s">> }

\* /data/config.json: absent, or holding docker.STORAGE_TYPE.
ConfigValues == { None, <<"J", "S", "O", "N">> }

\* --------------------------------------------------------- the remote repo
NoManifest == [exists |-> FALSE, valid |-> TRUE, hasReq |-> FALSE, reqs |-> <<>>]
Manifest(rs) == [exists |-> TRUE, valid |-> TRUE, hasReq |-> TRUE, reqs |-> rs]
ManifestNoField == [exists |-> TRUE, valid |-> TRUE, hasReq |-> FALSE, reqs |-> <<>>]
ManifestMalformed == [exists |-> TRUE, valid |-> FALSE, hasReq |-> FALSE, reqs |-> <<>>]

Root == <<>>
Dir(nm, par, mf) == [name |-> nm, parent |-> par, isDir |-> TRUE, manifest |-> mf]
File(nm, par) == [name |-> nm, parent |-> par, isDir |-> FALSE, manifest |-> NoManifest]

N_plutils == <<"p", "l", "u", "t", "i", "l", "s">>
N_pylavcore == <<"p", "y", "l", "a", "v", "-", "c", "o", "r", "e">>
N_docs == <<"d", "o", "c", "s">>
N_other ==
    <<"n", "o", "t", "a", "n", "a", "u", "d", "i", "o", "p", "l", "u", "g", "i", "n",
      "_", "o", "t", "h", "e", "r">>
N_plfile == <<"p", "l", "a", "n", ".", "m", "d">>
N_plnested == <<"p", "l", "n", "e", "s", "t", "e", "d">>
N_plempty == <<"p", "l", "e", "m", "p", "t", "y">>
N_plnofield == <<"p", "l", "n", "o", "f", "i", "e", "l", "d">>
N_plbad == <<"p", "l", "b", "a", "d">>

\* Commit identifiers (abbreviated hashes).
C_a == <<"a", "1">>
C_b == <<"b", "2">>
C_c == <<"c", "3">>
C_d == <<"d", "4">>
Commits == {C_a, C_b, C_c, C_d}

\* The tree of the remote repository at each commit.
Tree(c) ==
    CASE c = C_a ->
           { Dir(AudioName, Root, Manifest(<<"a", "b">>)),
             Dir(N_plutils, Root, Manifest(<<"b", "c">>)),
             Dir(N_pylavcore, Root, Manifest(<<"d">>)),
             Dir(N_docs, Root, NoManifest),
             Dir(N_other, Root, Manifest(<<"e">>)),
             File(N_plfile, Root),
             Dir(N_plnested, AudioName, Manifest(<<"f">>)) }
      [] c = C_b ->
           { Dir(AudioName, Root, NoManifest),
             Dir(N_plempty, Root, Manifest(<<>>)),
             Dir(N_plnofield, Root, ManifestNoField),
             Dir(N_docs, Root, Manifest(<<"g">>)) }
      [] c = C_c ->
           { Dir(N_docs, Root, NoManifest),
             Dir(N_pylavcore, Root, Manifest(<<"d">>)),
             File(AudioName, Root) }
      [] OTHER ->
           { Dir(AudioName, Root, Manifest(<<"a">>)),
             Dir(N_plbad, Root, ManifestMalformed) }

\* ------------------------------------------------------------ pure helpers
RECURSIVE SeqToSet(_)
SeqToSet(s) == IF s = <<>> THEN {} ELSE {Head(s)} \cup SeqToSet(Tail(s))

\* Lines 29: IS_JSON = STORAGE_TYPE.upper() == "JSON"
IsJsonStorage(storageType) == Upper(storageType) = JsonUpper

\* Line 177: the gate lets the run through only when the tag is set and
\* contains "pylav".
GateSkips(tag) == tag = None \/ ~Contains(tag, TagSubstring)

\* Variant of the filter that forgets cog.is_dir().
IsPylavCog_NoDirCheck(entry) ==
    StartsWith(entry.name, CogPrefix) \/ entry.name = AudioName

\* Line 90: the filter of get_pylav_cogs.
IsPylavCog(entry) ==
    /\ entry.isDir
    /\ (StartsWith(entry.name, CogPrefix) \/ entry.name = AudioName)

\* Lines 86-91: iterdir() lists the top-level entries only; the result maps
\* each kept directory's name to the directory.
get_pylav_cogs(tree) ==
    LET top == {e \in tree : e.parent = Root}
        kept == {e \in top : IsPylavCog(e)}
    IN  [nm \in {e.name : e \in kept} |-> CHOOSE e \in kept : e.name = nm]

\* Lines 106-115: a malformed info.json makes json.load raise.
RequirementsRaise(cogs) ==
    \E nm \in DOMAIN cogs : cogs[nm].manifest.exists /\ ~cogs[nm].manifest.valid

get_requirements_for_all_cogs(cogs) ==
    UNION { IF cogs[nm].manifest.exists /\ cogs[nm].manifest.hasReq
              THEN SeqToSet(cogs[nm].manifest.reqs)
              ELSE {} : nm \in DOMAIN cogs }

\* Lines 150-161
generate_updated_downloader_setting(cogs, commit_hash) ==
    [nm \in DOMAIN cogs |->
        [repo_name |-> RepoName, module_name |-> cogs[nm].name,
         commit |-> commit_hash, pinned |-> TRUE]]

\* ------------------------------------------------------------------- files
\* A settings file: absent, present with the expected shape, or present
\* without the keys the script indexes (json.load / the subscripts raise).
NoRegistry == [exists |-> FALSE, shaped |-> TRUE, map |-> <<>>]
Registry(m) == [exists |-> TRUE, shaped |-> TRUE, map |-> m]
BadRegistry == [exists |-> TRUE, shaped |-> FALSE, map |-> <<>>]

\* Variant of the repo-manager update that sets the branch without looking
\* for the key first.
create_or_update_repo_manager_setting_Overwrites(f) ==
    IF ~f.exists THEN
        [file |-> Registry([r \in {RepoName} |-> RepoBranch]), wrote |-> TRUE, raised |-> FALSE]
    ELSE IF ~f.shaped THEN
        [file |-> f, wrote |-> FALSE, raised |-> TRUE]
    ELSE
        [file |-> Registry([r \in DOMAIN f.map \cup {RepoName} |->
                               IF r = RepoName THEN RepoBranch ELSE f.map[r]]),
         wrote |-> TRUE, raised |-> FALSE]

\* Lines 44-56 on the contents of RepoManager/settings.json: the file after
\* the call, whether the call wrote, and whether it raised.
create_or_update_repo_manager_setting(f) ==
    IF ~f.exists THEN
        [file |-> Registry([r \in {RepoName} |-> RepoBranch]), wrote |-> TRUE, raised |-> FALSE]
    ELSE IF ~f.shaped THEN
        [file |-> f, wrote |-> FALSE, raised |-> TRUE]
    ELSE IF RepoName \notin DOMAIN f.map THEN
        [file |-> Registry([r \in DOMAIN f.map \cup {RepoName} |->
                               IF r = RepoName THEN RepoBranch ELSE f.map[r]]),
         wrote |-> TRUE, raised |-> FALSE]
    ELSE
        [file |-> f, wrote |-> FALSE, raised |-> FALSE]

\* Lines 59-70 on the contents of Downloader/settings.json.
create_or_update_downloader_setting(f, data) ==
    IF ~f.exists THEN
        [file |-> Registry([r \in {RepoName} |-> data]), wrote |-> TRUE, raised |-> FALSE]
    ELSE IF ~f.shaped THEN
        [file |-> f, wrote |-> FALSE, raised |-> TRUE]
    ELSE
        [file |-> Registry([r \in DOMAIN f.map \cup {RepoName} |->
                               IF r = RepoName THEN data ELSE f.map[r]]),
         wrote |-> TRUE, raised |-> FALSE]

\* The commit state file /data/pylav/.hashfile.
NoHashFile == [exists |-> FALSE, content |-> <<>>]
HashFile(text) == [exists |-> TRUE, content |-> text]

\* Lines 164-168
get_existing_commit(f) == IF f.exists THEN f.content ELSE <<>>

\* Variant of the commit write that ends the file with a newline.
update_existing_commit_WithNewline(commit_hash) == HashFile(commit_hash \o <<"\n">>)

\* Lines 171-173
update_existing_commit(commit_hash) == HashFile(commit_hash)

\* Line 83: git prints the hash and a newline; the script strips it.
RevParseOutput(commit) == commit \o <<"\n">>
ParseRevision(output) == Strip(output)

\* ------------------------------------------------------------------- state
VARIABLES
    run,                \* which run of the script this is
    pc,                 \* the statement the interpreter is at
    exitCode,           \* the process's exit status, -1 while it runs
    environ,            \* os.environ: PCX_DISCORDBOT_TAG and STORAGE_TYPE
    configJson,         \* docker.STORAGE_TYPE of /data/config.json, None if absent
    IS_JSON,            \* line 29
    folders,            \* which of the script's folders exist
    workingCopy,        \* per checkout folder: HEAD of the clone, None if no clone
    CogManagerCogs,     \* names of the directories in CogManagerCogFolder
    RepoManagerSetting, \* contents of RepoManager/settings.json
    DownloaderSetting,  \* contents of Downloader/settings.json
    PyLavHashFile,      \* contents of /data/pylav/.hashfile
    current_commit,     \* line 184
    existing_commit,    \* line 185
    cogs_mapping,       \* line 186
    downloader_data,    \* line 196
    process,            \* line 193: "unbound", "None" or "Popen"
    installer,          \* the child process: "none", "running", "exited", "killed"
    linesRead,          \* lines install_requirements has read from the child
    line,               \* line 140: the last result of readline()
    caught,             \* the step whose exception line 206 caught, "none" if none
    path,               \* "none", "GATE_SKIP", "UP_TO_DATE" or "INSTALL"
    trace,              \* the run's side effects, in order
    hashAtStart,        \* PyLavHashFile as the run found it
    prev                \* what the previous run did

vars ==
    << run, pc, exitCode, environ, configJson, IS_JSON, folders, workingCopy,
       CogManagerCogs, RepoManagerSetting, DownloaderSetting, PyLavHashFile,
       current_commit, existing_commit, cogs_mapping, downloader_data, process,
       installer, linesRead, line, caught, path, trace, hashAtStart, prev >>

\* The files and folders that outlive a run.
volume ==
    << folders, workingCopy, CogManagerCogs, RepoManagerSetting,
       DownloaderSetting, PyLavHashFile >>

\* The run's own variables.
locals ==
    << current_commit, existing_commit, cogs_mapping, downloader_data, process,
       linesRead, line, caught >>

Did(event) == \E i \in 1..Len(trace) : trace[i] = event

\* Position of an event in the run's trace, 0 if it did not happen; no step
\* of a run logs the same event twice.
Pos(event) ==
    IF Did(event) THEN CHOOSE i \in 1..Len(trace) : trace[i] = event ELSE 0

RepoFolders == {RepoManagerRepoFolder(TRUE), RepoManagerRepoFolder(FALSE)}

\* Lines printed by the installer on its standard output.
LineValues ==
    { <<"C", "o", "l", "l", "e", "c", "t", "i", "n", "g", " ", "a", "\n">>,
      SuccessSentinel \o <<" ", "a", "\n">>,
      <<" ", " ">> \o SuccessSentinel \o <<"\n">>,
      <<"\n">> }
EndOfStream == <<>>

\* Settings files a volume may hold before the script ever ran.
OtherRepo == "other"
InitialRepoManager ==
    { NoRegistry,
      Registry([r \in {OtherRepo} |-> "main"]),
      Registry([r \in {OtherRepo, RepoName} |-> IF r = RepoName THEN "develop" ELSE "main"]) }
InitialDownloader ==
    { NoRegistry,
      Registry([r \in {OtherRepo} |-> <<>>]) }

NoPrev == [head |-> None, persisted |-> FALSE, caughtBeforePersist |-> FALSE]

\* The state of the interpreter as a run starts.
FreshRun ==
    /\ pc = "load"
    /\ exitCode = -1
    /\ IS_JSON = FALSE
    /\ current_commit = None
    /\ existing_commit = None
    /\ cogs_mapping = <<>>
    /\ downloader_data = <<>>
    /\ process = "unbound"
    /\ installer = "none"
    /\ linesRead = 0
    /\ line = None
    /\ caught = "none"
    /\ path = "none"
    /\ trace = <<>>

Init ==
    /\ run = 1
    /\ environ \in [PCX_DISCORDBOT_TAG : TagValues, STORAGE_TYPE : StorageEnvValues]
    \* the file is opened only when the variable is unset (line 24)
    /\ configJson \in (IF environ.STORAGE_TYPE = None THEN ConfigValues ELSE {None})
    /\ FreshRun
    /\ folders = {}
    /\ workingCopy = [f \in RepoFolders |-> None]
    /\ CogManagerCogs = {}
    /\ RepoManagerSetting \in InitialRepoManager
    /\ DownloaderSetting \in InitialDownloader
    /\ PyLavHashFile = NoHashFile
    /\ hashAtStart = PyLavHashFile
    /\ prev = NoPrev

\* ----------------------------------------------------------------- actions
\* An exception nobody catches: the interpreter prints the traceback and
\* exits with status 1.
Uncaught ==
    /\ pc' = "done"
    /\ exitCode' = 1
    /\ trace' = Append(trace, "traceback")

\* sys.exit(0)
Exit0 ==
    /\ pc' = "done"
    /\ exitCode' = 0
    /\ trace' = Append(trace, "exit")

\* Line 206: the except clause logs the exception; the finally clause is next.
Caught(step) ==
    /\ caught' = step
    /\ pc' = "finally"

\* Lines 22-32: the module body, which runs before the __main__ block.
LoadModule ==
    /\ pc = "load"
    /\ LET env == environ.STORAGE_TYPE
           unset == env = None \/ env = <<>>
       IN  IF unset /\ configJson = None
           THEN \* line 25: open() raises FileNotFoundError
                /\ Uncaught
                /\ UNCHANGED IS_JSON
           ELSE /\ IS_JSON' = IsJsonStorage(IF unset THEN configJson ELSE env)
                /\ pc' = "gate"
                /\ UNCHANGED <<exitCode, trace>>
    /\ UNCHANGED <<run, environ, configJson, volume, locals, installer, path,
                   hashAtStart, prev>>

\* Lines 177-180
Gate ==
    /\ pc = "gate"
    /\ IF GateSkips(environ.PCX_DISCORDBOT_TAG)
       THEN /\ path' = "GATE_SKIP"
            /\ Exit0
       ELSE /\ pc' = "mkdir"
            /\ UNCHANGED <<path, exitCode, trace>>
    /\ UNCHANGED <<run, environ, configJson, IS_JSON, volume, locals, installer,
                   hashAtStart, prev>>

\* Lines 181-183: mkdir(parents=True) of each folder that does not exist;
\* mkdir may raise (read-only volume, a file in the way).
MakeFolders ==
    /\ pc = "mkdir"
    /\ LET wanted == {DownloaderLibFolder, RepoManagerRepoFolder(IS_JSON),
                      CogManagerCogFolder}
       IN  IF wanted \subseteq folders
           THEN /\ pc' = "sync"
                /\ UNCHANGED <<folders, exitCode, trace>>
           ELSE \E ok \in BOOLEAN :
                   IF ok
                   THEN /\ folders' = folders \cup wanted
                        /\ trace' = Append(trace, "mkdir")
                        /\ pc' = "sync"
                        /\ UNCHANGED exitCode
                   ELSE /\ Uncaught
                        /\ UNCHANGED folders
    /\ UNCHANGED <<run, environ, configJson, IS_JSON, workingCopy, CogManagerCogs,
                   RepoManagerSetting, DownloaderSetting, PyLavHashFile, locals,
                   installer, path, hashAtStart, prev>>

\* Lines 73-83: reset, clean and pull an existing clone, or clone; the exit
\* status of these git calls is ignored.  Then rev-parse HEAD, which raises
\* CalledProcessError when there is no repository to read.
clone_or_update_pylav_repo ==
    /\ pc = "sync"
    /\ \E remoteHead \in Commits, gitOk \in BOOLEAN :
         LET folder == RepoManagerRepoFolder(IS_JSON)
             head == IF gitOk THEN remoteHead ELSE workingCopy[folder]
         IN  /\ workingCopy' = [workingCopy EXCEPT ![folder] = head]
             /\ IF head = None
                THEN /\ pc' = "done"
                     /\ exitCode' = 1
                     /\ trace' = trace \o <<"git", "traceback">>
                     /\ UNCHANGED current_commit
                ELSE /\ current_commit' = ParseRevision(RevParseOutput(head))
                     /\ pc' = "existing"
                     /\ trace' = Append(trace, "git")
                     /\ UNCHANGED exitCode
    /\ UNCHANGED <<run, environ, configJson, IS_JSON, folders, CogManagerCogs,
                   RepoManagerSetting, DownloaderSetting, PyLavHashFile,
                   existing_commit, cogs_mapping, downloader_data, process,
                   installer, linesRead, line, caught, path, hashAtStart, prev>>

\* Line 185
ReadExistingCommit ==
    /\ pc = "existing"
    /\ existing_commit' = get_existing_commit(PyLavHashFile)
    /\ pc' = "discover"
    /\ UNCHANGED <<run, exitCode, environ, configJson, IS_JSON, volume,
                   current_commit, cogs_mapping, downloader_data, process,
                   installer, linesRead, line, caught, path, trace, hashAtStart, prev>>

\* Line 186
DiscoverCogs ==
    /\ pc = "discover"
    /\ cogs_mapping' = get_pylav_cogs(Tree(workingCopy[RepoManagerRepoFolder(IS_JSON)]))
    /\ pc' = "compare"
    /\ UNCHANGED <<run, exitCode, environ, configJson, IS_JSON, volume,
                   current_commit, existing_commit, downloader_data, process,
                   installer, linesRead, line, caught, path, trace, hashAtStart, prev>>

\* Line 187: byte-for-byte comparison of the two strings.
SameCommit(current, existing) == current = existing

\* Variant of the comparison that logs "up to date" and forgets to exit.
Compare_FallsThrough ==
    /\ pc = "compare"
    /\ path' = IF SameCommit(current_commit, existing_commit)
               THEN "UP_TO_DATE" ELSE "INSTALL"
    /\ pc' = IF IS_JSON THEN "copy" ELSE "requirements"
    /\ UNCHANGED <<exitCode, trace>>
    /\ UNCHANGED <<run, environ, configJson, IS_JSON, volume, locals, installer,
                   hashAtStart, prev>>

\* Lines 187-191
Compare ==
    /\ pc = "compare"
    /\ IF SameCommit(current_commit, existing_commit)
       THEN /\ path' = "UP_TO_DATE"
            /\ Exit0
       ELSE /\ path' = "INSTALL"
            /\ pc' = IF IS_JSON THEN "copy" ELSE "requirements"
            /\ UNCHANGED <<exitCode, trace>>
    /\ UNCHANGED <<run, environ, configJson, IS_JSON, volume, locals, installer,
                   hashAtStart, prev>>

\* Lines 101-103 with 94-98 (line 192, registry-file mode only): each cog's
\* target is removed and copied again.  rmtree or copytree may raise part
\* way: some cogs are copied, and the one being copied is left present or
\* absent.
install_or_update_pylav_cogs ==
    /\ pc = "copy"
    /\ LET names == DOMAIN cogs_mapping
       IN  IF names = {}
           THEN /\ pc' = "requirements"
                /\ UNCHANGED <<CogManagerCogs, exitCode, trace>>
           ELSE \/ /\ CogManagerCogs' = CogManagerCogs \cup names
                   /\ trace' = Append(trace, "copy")
                   /\ pc' = "requirements"
                   /\ UNCHANGED exitCode
                \/ \E failing \in names, left \in BOOLEAN :
                     \E copied \in SUBSET (names \ {failing}) :
                        /\ CogManagerCogs' =
                              IF left THEN CogManagerCogs \cup copied \cup {failing}
                              ELSE (CogManagerCogs \cup copied) \ {failing}
                        /\ pc' = "done"
                        /\ exitCode' = 1
                        /\ trace' = trace \o <<"copy", "traceback">>
    /\ UNCHANGED <<run, environ, configJson, IS_JSON, folders, workingCopy,
                   RepoManagerSetting, DownloaderSetting, PyLavHashFile, locals,
                   installer, path, hashAtStart, prev>>

\* Lines 118-138 and 147: collect the requirements; when there are some,
\* start pip (Popen may raise, e.g. no /data/venv/bin/pip).  When there are
\* none the function returns None, which line 193 assigns.
\* Variant that starts pip whatever the requirement set is.
SpawnsInstaller_Always(requirements) == TRUE

SpawnsInstaller(requirements) == requirements # {}

install_requirements ==
    /\ pc = "requirements"
    /\ IF RequirementsRaise(cogs_mapping)
       THEN /\ Uncaught
            /\ UNCHANGED <<process, installer>>
       ELSE IF SpawnsInstaller(get_requirements_for_all_cogs(cogs_mapping))
       THEN \E ok \in BOOLEAN :
               IF ok
               THEN /\ installer' = "running"
                    /\ trace' = Append(trace, "spawn")
                    /\ pc' = "tail"
                    /\ UNCHANGED <<process, exitCode>>
               ELSE /\ Uncaught
                    /\ UNCHANGED <<process, installer>>
       ELSE /\ process' = "None"
            /\ pc' = "generate"
            /\ UNCHANGED <<installer, exitCode, trace>>
    /\ UNCHANGED <<run, environ, configJson, IS_JSON, volume, current_commit,
                   existing_commit, cogs_mapping, downloader_data, linesRead, line,
                   caught, path, hashAtStart, prev>>

\* Lines 141 and 144: the loop stops at the end of the stream or at a line
\* that starts with the sentinel.
TailStops(text) == text = EndOfStream \/ StartsWith(text, SuccessSentinel)

\* Lines 139-146 and the assignment of line 193: one readline per step.
\* readline decodes the child's bytes and may raise (UnicodeDecodeError);
\* that is outside the try block, and the child is left running.
TailInstallerOutput ==
    /\ pc = "tail"
    /\ \/ \E out \in (IF linesRead < MaxLines THEN LineValues ELSE {}) \cup {EndOfStream} :
            /\ line' = out
            /\ IF TailStops(out)
               THEN /\ process' = "Popen"
                    /\ trace' = Append(trace, "tail_end")
                    /\ pc' = "generate"
                    /\ UNCHANGED linesRead
               ELSE /\ linesRead' = linesRead + 1
                    /\ UNCHANGED <<process, trace, pc>>
            /\ UNCHANGED exitCode
       \/ /\ Uncaught
          /\ UNCHANGED <<process, line, linesRead>>
    /\ UNCHANGED <<run, environ, configJson, IS_JSON, volume,
                   current_commit, existing_commit, cogs_mapping, downloader_data,
                   installer, caught, path, hashAtStart, prev>>

\* The child process ends on its own.
InstallerExits ==
    /\ installer = "running"
    /\ pc # "done"
    /\ installer' = "exited"
    /\ UNCHANGED <<run, pc, exitCode, environ, configJson, IS_JSON, volume, locals,
                   path, trace, hashAtStart, prev>>

\* Variant of the try block that records the commit first.
GenerateDownloaderData_PersistsFirst ==
    /\ pc = "generate"
    /\ PyLavHashFile' = update_existing_commit(current_commit)
    /\ \E ok \in BOOLEAN :
         IF ok
         THEN /\ downloader_data' =
                    generate_updated_downloader_setting(cogs_mapping, current_commit)
              /\ trace' = trace \o <<"hash_write", "generate">>
              /\ pc' = IF IS_JSON THEN "downloader" ELSE "persist"
              /\ UNCHANGED caught
         ELSE /\ Caught("generate")
              /\ trace' = Append(trace, "hash_write")
              /\ UNCHANGED downloader_data
    /\ UNCHANGED <<run, exitCode, environ, configJson, IS_JSON, folders,
                   workingCopy, CogManagerCogs, RepoManagerSetting,
                   DownloaderSetting, current_commit, existing_commit,
                   cogs_mapping, process, installer, linesRead, line, path,
                   hashAtStart, prev>>

\* Lines 195-197, the first statements of the try block; building the
\* mapping may raise (MemoryError).
GenerateDownloaderData ==
    /\ pc = "generate"
    /\ \E ok \in BOOLEAN :
         IF ok
         THEN /\ downloader_data' =
                    generate_updated_downloader_setting(cogs_mapping, current_commit)
              /\ trace' = Append(trace, "generate")
              /\ pc' = IF IS_JSON THEN "downloader" ELSE "persist"
              /\ UNCHANGED caught
         ELSE /\ Caught("generate")
              /\ UNCHANGED <<downloader_data, trace>>
    /\ UNCHANGED <<run, exitCode, environ, configJson, IS_JSON, volume,
                   current_commit, existing_commit, cogs_mapping, process,
                   installer, linesRead, line, path, hashAtStart, prev>>

\* Line 199: open("w") truncates the file, so a write that raises leaves the
\* file as it was (open failed) or unreadable (dump failed).
UpdateDownloaderSetting ==
    /\ pc = "downloader"
    /\ LET res == create_or_update_downloader_setting(DownloaderSetting, downloader_data)
       IN  IF res.raised
           THEN /\ Caught("downloader")
                /\ UNCHANGED <<DownloaderSetting, trace>>
           ELSE \/ /\ DownloaderSetting' = res.file
                   /\ trace' = Append(trace, "downloader_write")
                   /\ pc' = "repo_manager"
                   /\ UNCHANGED caught
                \/ /\ DownloaderSetting' \in {DownloaderSetting, BadRegistry}
                   /\ Caught("downloader")
                   /\ UNCHANGED trace
    /\ UNCHANGED <<run, exitCode, environ, configJson, IS_JSON, folders,
                   workingCopy, CogManagerCogs, RepoManagerSetting, PyLavHashFile,
                   current_commit, existing_commit, cogs_mapping, downloader_data,
                   process, installer, linesRead, line, path, hashAtStart, prev>>

\* Line 200
UpdateRepoManagerSetting ==
    /\ pc = "repo_manager"
    /\ LET res == create_or_update_repo_manager_setting(RepoManagerSetting)
       IN  IF res.raised
           THEN /\ Caught("repo_manager")
                /\ UNCHANGED <<RepoManagerSetting, trace>>
           ELSE IF ~res.wrote
           THEN /\ pc' = "persist"
                /\ UNCHANGED <<RepoManagerSetting, trace, caught>>
           ELSE \/ /\ RepoManagerSetting' = res.file
                   /\ trace' = Append(trace, "repo_manager_write")
                   /\ pc' = "persist"
                   /\ UNCHANGED caught
                \/ /\ RepoManagerSetting' \in {RepoManagerSetting, BadRegistry}
                   /\ Caught("repo_manager")
                   /\ UNCHANGED trace
    /\ UNCHANGED <<run, exitCode, environ, configJson, IS_JSON, folders,
                   workingCopy, CogManagerCogs, DownloaderSetting, PyLavHashFile,
                   current_commit, existing_commit, cogs_mapping, downloader_data,
                   process, installer, linesRead, line, path, hashAtStart, prev>>

\* Line 201: open("w") may raise (the file is left alone), or the write may
\* raise after the file was truncated.
PersistCommit ==
    /\ pc = "persist"
    /\ \/ /\ PyLavHashFile' = update_existing_commit(current_commit)
          /\ trace' = Append(trace, "hash_write")
          /\ pc' = IF process = "Popen" THEN "wait" ELSE "finally"
          /\ UNCHANGED caught
       \/ /\ Caught("persist")
          /\ UNCHANGED <<PyLavHashFile, trace>>
       \/ /\ PyLavHashFile' = HashFile(<<>>)
          /\ trace' = Append(trace, "hash_truncate")
          /\ Caught("persist")
    /\ UNCHANGED <<run, exitCode, environ, configJson, IS_JSON, folders,
                   workingCopy, CogManagerCogs, RepoManagerSetting,
                   DownloaderSetting, current_commit, existing_commit,
                   cogs_mapping, downloader_data, process, installer, linesRead, line,
                   path, hashAtStart, prev>>

\* Lines 202-205: process.wait() returns once the child has ended.
WaitForInstaller ==
    /\ pc = "wait"
    /\ installer = "exited"
    /\ trace' = Append(trace, "wait")
    /\ pc' = "finally"
    /\ UNCHANGED <<run, exitCode, environ, configJson, IS_JSON, volume, locals,
                   installer, path, hashAtStart, prev>>

\* Variant of the cleanup whose exit status tells whether the run failed.
Cleanup_ExitReflectsFailure ==
    /\ pc = "finally"
    /\ pc' = "done"
    /\ installer' = IF process = "Popen" /\ installer = "running"
                    THEN "killed" ELSE installer
    /\ trace' = IF process = "Popen"
                THEN trace \o <<"kill", "terminate", "exit">>
                ELSE Append(trace, "exit")
    /\ exitCode' = IF caught = "none" THEN 0 ELSE 1
    /\ UNCHANGED <<run, environ, configJson, IS_JSON, volume, locals, path,
                   hashAtStart, prev>>

\* Variant of the cleanup that exits without signalling the child.
Cleanup_NoKill ==
    /\ pc = "finally"
    /\ pc' = "done"
    /\ trace' = Append(trace, "exit")
    /\ exitCode' = 0
    /\ UNCHANGED installer
    /\ UNCHANGED <<run, environ, configJson, IS_JSON, volume, locals, path,
                   hashAtStart, prev>>

\* Variant of the cleanup that signals the child only when the wait was not
\* reached.
Cleanup_SkipsKillAfterWait ==
    /\ pc = "finally"
    /\ pc' = "done"
    /\ exitCode' = 0
    /\ IF process = "Popen" /\ ~Did("wait")
       THEN /\ installer' = IF installer = "running" THEN "killed" ELSE installer
            /\ trace' = trace \o <<"kill", "terminate", "exit">>
       ELSE /\ trace' = Append(trace, "exit")
            /\ UNCHANGED installer
    /\ UNCHANGED <<run, environ, configJson, IS_JSON, volume, locals, path,
                   hashAtStart, prev>>

\* Lines 208-212: kill() and terminate() signal the child when there is a
\* handle, then sys.exit(0).  Reading an unbound name raises NameError.
Cleanup ==
    /\ pc = "finally"
    /\ pc' = "done"
    /\ CASE process = "Popen" ->
              /\ installer' = IF installer = "running" THEN "killed" ELSE installer
              /\ trace' = trace \o <<"kill", "terminate", "exit">>
              /\ exitCode' = 0
         [] process = "None" ->
              /\ trace' = Append(trace, "exit")
              /\ exitCode' = 0
              /\ UNCHANGED installer
         [] OTHER ->
              /\ trace' = Append(trace, "traceback")
              /\ exitCode' = 1
              /\ UNCHANGED installer
    /\ UNCHANGED <<run, environ, configJson, IS_JSON, volume, locals, path,
                   hashAtStart, prev>>

\* The steps between the try statement and the commit persistence.
BeforePersist == {"generate", "downloader", "repo_manager"}

\* The container starts again: the script runs once more over the volume.
StartRun ==
    /\ pc = "done"
    /\ run < MaxRuns
    /\ run' = run + 1
    /\ prev' = [head |-> current_commit,
                persisted |-> Did("hash_write"),
                caughtBeforePersist |-> caught \in BeforePersist]
    /\ hashAtStart' = PyLavHashFile
    /\ pc' = "load"
    /\ exitCode' = -1
    /\ IS_JSON' = FALSE
    /\ current_commit' = None
    /\ existing_commit' = None
    /\ cogs_mapping' = <<>>
    /\ downloader_data' = <<>>
    /\ process' = "unbound"
    /\ installer' = "none"
    /\ linesRead' = 0
    /\ line' = None
    /\ caught' = "none"
    /\ path' = "none"
    /\ trace' = <<>>
    /\ UNCHANGED <<environ, configJson, volume>>

Next ==
    \/ LoadModule
    \/ Gate
    \/ MakeFolders
    \/ clone_or_update_pylav_repo
    \/ ReadExistingCommit
    \/ DiscoverCogs
    \/ Compare
    \/ install_or_update_pylav_cogs
    \/ install_requirements
    \/ TailInstallerOutput
    \/ InstallerExits
    \/ GenerateDownloaderData
    \/ UpdateDownloaderSetting
    \/ UpdateRepoManagerSetting
    \/ PersistCommit
    \/ WaitForInstaller
    \/ Cleanup
    \/ StartRun

Spec == Init /\ [][Next]_vars

\* ------------------------------------------------------------------ claims
\* The comparison of line 187 has been made in this run.
Compared == path \in {"UP_TO_DATE", "INSTALL"}

\* The try statement of line 194 has been entered: line 193 bound `process`.
InTry == process # "unbound"

GuardedSteps == {"generate", "downloader", "repo_manager", "persist"}

\* C1 as stated: every run that ends has exit status 0, whatever step raised.
C1_ExitAlwaysZero == pc = "done" => exitCode = 0

\* C1, amended: a run that ends by the gate skip, by the up-to-date skip, by
\* a successful update or by an exception raised inside the try block exits
\* with status 0; a run exits with a non-zero status (1) exactly when an
\* exception was raised outside the try block (module load, folder creation,
\* repository sync, plugin copy, requirement collection, installer spawn or
\* output tailing), and such a run never entered the try block.
C1_ExitZeroUnlessRaisedOutsideTry ==
    pc = "done" =>
        /\ exitCode \in {0, 1}
        /\ (path \in {"GATE_SKIP", "UP_TO_DATE"} => exitCode = 0)
        /\ (Did("hash_write") => exitCode = 0)
        /\ (caught # "none" => exitCode = 0)
        /\ (InTry => exitCode = 0)
        /\ (exitCode = 1 <=> Did("traceback"))
        /\ (exitCode = 1 => ~InTry /\ caught = "none" /\ path \in {"none", "INSTALL"})

\* A run ended after the except clause caught an exception.
C1_Witness == pc = "done" /\ caught # "none" /\ exitCode = 0

\* C2 as stated: once on the INSTALL path, whatever raises, the run exits 0
\* and a started installer is signalled before the exit.
C2_InstallPathAlwaysSwallowed ==
    (pc = "done" /\ path = "INSTALL") =>
        /\ exitCode = 0
        /\ (Did("spawn") => Did("kill") /\ Did("terminate"))

\* C2, amended: an exception raised inside the try block (generating the
\* downloader payload, writing either registry, writing the commit state
\* file) is caught: the run exits 0, and the installer, if it was started, is
\* signalled (kill, then terminate) before the exit and is no longer running.
\* An exception raised on the INSTALL path before the try block (copying
\* plugin directories, collecting requirements, spawning the installer or
\* reading its output) is not caught: the run exits 1 without reaching the
\* cleanup.
C2_GuardedExceptionsSwallowed ==
    /\ caught # "none" => caught \in GuardedSteps /\ InTry /\ pc \in {"finally", "done"}
    /\ (pc = "done" /\ caught # "none") =>
          /\ exitCode = 0
          /\ Did("spawn") =>
                /\ Did("kill") /\ Did("terminate")
                /\ Pos("kill") < Pos("terminate")
                /\ Pos("terminate") < Pos("exit")
                /\ installer # "running"
    /\ (pc = "done" /\ path = "INSTALL" /\ ~InTry) =>
          /\ exitCode = 1
          /\ ~Did("kill") /\ ~Did("terminate")

\* The payload could not be generated while the installer was running.
C2_Witness ==
    /\ pc = "done"
    /\ caught = "generate"
    /\ Did("spawn")
    /\ installer = "killed"

\* C3: when the synced commit equals the recorded one, the run takes the
\* UP_TO_DATE path and ends with status 0 without copying a plugin, spawning
\* the installer, writing either registry or rewriting the commit file.
C3_UpToDateWritesNothing ==
    (Compared /\ current_commit = existing_commit) =>
        /\ path = "UP_TO_DATE"
        /\ pc = "done" /\ exitCode = 0
        /\ ~Did("copy") /\ ~Did("spawn")
        /\ ~Did("downloader_write") /\ ~Did("repo_manager_write")
        /\ ~Did("hash_write") /\ ~Did("hash_truncate")
        /\ PyLavHashFile = hashAtStart
        /\ installer = "none" /\ ~InTry

\* An up-to-date run in registry-file mode.
C3_Witness ==
    /\ path = "UP_TO_DATE"
    /\ IS_JSON
    /\ current_commit = existing_commit
    /\ pc = "done"

\* C4 as stated: with the gate variable unset or without "pylav", the
\* process exits 0 at once and does nothing else, whatever STORAGE_TYPE and
\* /data/config.json are.
C4_GateSkipExitsZero ==
    (pc = "done" /\ GateSkips(environ.PCX_DISCORDBOT_TAG)) =>
        /\ exitCode = 0
        /\ trace = <<"exit">>

\* C5: when no discovered plugin declares a requirement, no installer is
\* spawned, install_requirements returns None, and the run never waits on,
\* kills or terminates a process.
C5_NoRequirementsNoInstaller ==
    (path = "INSTALL" /\ ~RequirementsRaise(cogs_mapping)
       /\ get_requirements_for_all_cogs(cogs_mapping) = {}) =>
        /\ installer = "none"
        /\ process \in {"unbound", "None"}
        /\ (pc \in {"generate", "downloader", "repo_manager", "persist", "finally"}
              => process = "None")
        /\ pc \notin {"tail", "wait"}
        /\ ~Did("spawn") /\ ~Did("wait") /\ ~Did("kill") /\ ~Did("terminate")

\* A finished update of plugins that declare no requirement.
C5_Witness ==
    /\ pc = "done"
    /\ path = "INSTALL"
    /\ DOMAIN cogs_mapping # {}
    /\ get_requirements_for_all_cogs(cogs_mapping) = {}
    /\ Did("hash_write")
    /\ exitCode = 0

\* The top-level entries of the checkout the run discovered its cogs in.
CheckedOutTree == Tree(workingCopy[RepoManagerRepoFolder(IS_JSON)])

\* The name starts with the two characters "pl".
BeginsWithPL(nm) == Len(nm) >= 2 /\ nm[1] = "p" /\ nm[2] = "l"

\* C6 as stated: discovery returns the top-level directories named "audio"
\* or starting with "pl", and a directory named "pylav-core" is one of them.
C6_IncludesPylavCore ==
    Compared =>
        /\ \A nm \in DOMAIN cogs_mapping :
              /\ cogs_mapping[nm] \in CheckedOutTree
              /\ cogs_mapping[nm].isDir
              /\ cogs_mapping[nm].parent = Root
        /\ {N_docs, N_other} \cap DOMAIN cogs_mapping = {}
        /\ \A e \in CheckedOutTree :
              (e.parent = Root /\ e.isDir
                 /\ (e.name = AudioName \/ BeginsWithPL(e.name) \/ e.name = N_pylavcore))
                  => e.name \in DOMAIN cogs_mapping

\* C6, amended: discovery returns exactly the top-level directories whose
\* name starts with "pl" or equals "audio" (e.g. "audio", "plutils"); it
\* leaves out "pylav-core" (which starts with "py"), "docs" and
\* "notanaudioplugin_other", every non-directory entry and every nested
\* directory.
C6_DiscoveryExact ==
    Compared =>
        LET head == workingCopy[RepoManagerRepoFolder(IS_JSON)]
            tree == Tree(head)
            found == DOMAIN cogs_mapping
        IN  /\ found =
                  { e.name : e \in { x \in tree :
                                       /\ x.parent = Root
                                       /\ x.isDir
                                       /\ (BeginsWithPL(x.name) \/ x.name = AudioName) } }
            /\ \A nm \in found :
                  /\ cogs_mapping[nm] \in tree
                  /\ cogs_mapping[nm].name = nm
                  /\ cogs_mapping[nm].isDir
                  /\ cogs_mapping[nm].parent = Root
            /\ {N_pylavcore, N_docs, N_other, N_plfile, N_plnested} \cap found = {}
            /\ (head = C_a => found = {AudioName, N_plutils})
            /\ (head = C_c => found = {})

\* Discovery ran on the tree that holds audio, plutils, pylav-core, docs,
\* notanaudioplugin_other, a file and a nested directory.
C6_Witness ==
    /\ Compared
    /\ workingCopy[RepoManagerRepoFolder(IS_JSON)] = C_a
    /\ DOMAIN cogs_mapping = {AudioName, N_plutils}

\* C7: the repo-manager update leaves a document that already has the
\* "pylav" key unchanged (whatever its branch), applying it twice gives the
\* same document as applying it once, and every other repository entry is
\* preserved; a run that follows a completed update does not write the file.
C7_RepoManagerIdempotent ==
    LET f == RepoManagerSetting
        once == create_or_update_repo_manager_setting(f)
        twice == create_or_update_repo_manager_setting(once.file)
    IN  /\ (f.exists /\ f.shaped /\ RepoName \in DOMAIN f.map)
              => once.file = f /\ ~once.wrote /\ ~once.raised
        /\ twice.file = once.file
        /\ ~once.raised => ~twice.wrote /\ ~twice.raised
        /\ ~once.raised =>
              /\ once.file.exists /\ once.file.shaped
              /\ RepoName \in DOMAIN once.file.map
              /\ (f.exists => DOMAIN once.file.map = DOMAIN f.map \cup {RepoName})
              /\ \A r \in DOMAIN f.map : once.file.map[r] = f.map[r]
              /\ (RepoName \notin DOMAIN f.map => once.file.map[RepoName] = RepoBranch)
        /\ Did("repo_manager_write") => f.map[RepoName] = RepoBranch /\ ~prev.persisted

\* A registry-file run went through the update on a document that already
\* held "pylav" on another branch, next to another repository.
C7_Witness ==
    /\ pc = "done"
    /\ IS_JSON
    /\ Did("hash_write")
    /\ RepoManagerSetting.exists /\ RepoManagerSetting.shaped
    /\ DOMAIN RepoManagerSetting.map = {OtherRepo, RepoName}
    /\ RepoManagerSetting.map[RepoName] = "develop"

\* C8: without a state file get_existing_commit gives the empty string and
\* the run takes the INSTALL path; after a run recorded commit c, the next
\* run reads exactly c, and takes the UP_TO_DATE path when its HEAD is c.
C8_CommitRoundTrip ==
    /\ ~PyLavHashFile.exists => get_existing_commit(PyLavHashFile) = <<>>
    /\ (Compared /\ ~hashAtStart.exists) =>
          /\ existing_commit = <<>>
          /\ (current_commit # <<>> => path = "INSTALL")
    /\ (Compared /\ prev.persisted) =>
          /\ existing_commit = prev.head
          /\ (current_commit = prev.head => path = "UP_TO_DATE")
    /\ Did("hash_write") => get_existing_commit(PyLavHashFile) = current_commit

\* The run after one that recorded its commit found the same HEAD.
C8_Witness ==
    /\ prev.persisted
    /\ current_commit = prev.head
    /\ path = "UP_TO_DATE"

\* C9: the commit file is written only after the payload was generated and,
\* in registry-file mode, both registry updates completed without an
\* exception; when an exception is caught before that, the file keeps its
\* contents and the next run with the same HEAD takes the INSTALL path again.
C9_PersistOnlyAfterSuccess ==
    /\ (Did("hash_write") \/ Did("hash_truncate")) =>
          /\ Did("generate")
          /\ Pos("generate") < Pos("hash_write") \/ Pos("generate") < Pos("hash_truncate")
          /\ downloader_data = generate_updated_downloader_setting(cogs_mapping, current_commit)
          /\ caught \in {"none", "persist"}
          /\ IS_JSON =>
                /\ Did("downloader_write")
                /\ Pos("downloader_write") > Pos("generate")
                /\ DownloaderSetting.map[RepoName] = downloader_data
                /\ RepoName \in DOMAIN RepoManagerSetting.map
    /\ caught \in BeforePersist =>
          /\ PyLavHashFile = hashAtStart
          /\ ~Did("hash_write") /\ ~Did("hash_truncate")
    /\ (Compared /\ prev.caughtBeforePersist /\ current_commit = prev.head) =>
          path = "INSTALL"

\* The run after one whose registry update raised found the same HEAD.
C9_Witness ==
    /\ prev.caughtBeforePersist
    /\ current_commit = prev.head
    /\ path = "INSTALL"

RegistrySteps == {"generate", "downloader_write", "repo_manager_write", "hash_write",
                  "hash_truncate"}

\* C10: the installer is spawned and its output tailed before any registry
\* update; the wait for it comes only after the registry updates and the
\* commit persistence completed without an exception; and whenever the
\* cleanup runs with a spawned installer, it is signalled (kill, terminate)
\* before the exit, whether or not it had ended or been waited for.
C10_InstallerLifecycleOrder ==
    LET spawned == Pos("spawn")
        tailed == Pos("tail_end")
        persisted == Pos("hash_write")
        waited == Pos("wait")
    IN  /\ Did("spawn") =>
              /\ \A e \in RegistrySteps :
                    Did(e) => /\ tailed > 0
                                  /\ spawned < tailed
                                  /\ tailed < Pos(e)
              /\ pc = "tail" => \A e \in RegistrySteps : ~Did(e)
              /\ (process = "Popen") = (tailed > 0)
              /\ tailed > 0 =>
                    \/ line = EndOfStream
                    \/ /\ Len(line) >= Len(SuccessSentinel)
                       /\ \A i \in 1..Len(SuccessSentinel) : line[i] = SuccessSentinel[i]
              /\ (pc = "tail" /\ linesRead > 0) =>
                    /\ line # EndOfStream
                    /\ \E i \in 1..Len(SuccessSentinel) :
                          i > Len(line) \/ line[i] # SuccessSentinel[i]
        /\ ~Did("spawn") => process # "Popen" /\ installer = "none"
        /\ Did("wait") =>
              /\ caught = "none"
              /\ persisted > 0 /\ persisted < waited
              /\ IS_JSON => /\ Did("downloader_write")
                            /\ Pos("downloader_write") < persisted
              /\ installer = "exited"
        /\ pc = "wait" => persisted > 0 /\ caught = "none"
        /\ (pc = "done" /\ process = "Popen") =>
              /\ Did("kill") /\ Did("terminate")
              /\ Pos("kill") < Pos("terminate")
              /\ Pos("terminate") < Pos("exit")
              /\ installer \in {"exited", "killed"}

\* A run waited for the installer and then signalled it all the same.
C10_Witness ==
    /\ pc = "done"
    /\ Did("wait")
    /\ Did("kill")
    /\ installer = "exited"
====
